---- MODULE Spec2Model ----
(***************************************************************************)
(* Model of the coinmarketcap client (package coinmarketcap, v2).          *)
(*                                                                         *)
(* The package has no state of its own: every exported function is a       *)
(* synchronous chain of HTTP requests followed by decoding.  The state of  *)
(* the model is the call in progress or last completed: its arguments, the *)
(* log of network requests it issued (with the upstream's answers), and    *)
(* its return value.  Exchanges is modelled step by step (one page request *)
(* at a time), the other functions as one action each, with the upstream's *)
(* answers drawn from small sets.                                          *)
(*                                                                         *)
(* Text that the code inspects (symbols, table cells) is a sequence of     *)
(* one-character strings; text that is only passed through (messages,      *)
(* slugs, bodies) is a TLA+ string.                                        *)
(***************************************************************************)
EXTENDS Integers, Sequences, FiniteSets, TLC

VARIABLES op, args, reqs, ret, pc, i, exchanges

vars == <<op, args, reqs, ret, pc, i, exchanges>>

----------------------------------------------------------------------------
(* Bounds of the model *)

\* longest symbol passed to CoinID
MaxSymLen == 3
\* most listings in a listings response
MaxListings == 2
\* most entries in the data mapping of a tickers response
MaxTickers == 3
\* width in bits of Go's int, scaled down (the page counter of Exchanges)
IntBits == 3
\* most cells in a table row of a scraped page
MaxCols == 10

----------------------------------------------------------------------------
(* Values *)

MaxInt == 2 ^ (IntBits - 1) - 1
MinInt == 0 - 2 ^ (IntBits - 1)

\* i++ on an int: wraps around at the width of the type
IntInc(n) == IF n = MaxInt THEN MinInt ELSE n + 1

\* error values: the message, and the site that creates it
NoErr == [kind |-> "nil", msg |-> ""]
Error(k, m) == [kind |-> k, msg |-> m]

\* a function's return: value, error, or a run-time panic
Return(v, e) == [val |-> v, err |-> e, panic |-> FALSE]
Panic(m) == [val |-> <<>>, err |-> NoErr, panic |-> TRUE]

RECURSIVE SeqsUpTo(_, _)
SeqsUpTo(S, n) ==
    IF n = 0 THEN {<<>>}
    ELSE LET shorter == SeqsUpTo(S, n - 1)
         IN shorter \cup {Append(s, x) : s \in {t \in shorter : Len(t) = n - 1}, x \in S}

----------------------------------------------------------------------------
(* strings.TrimSpace, strings.ToUpper *)

Letters == {"b", "B", "e", "E"}
Spaces == {" "}

UpperChar(c) == IF c = "b" THEN "B" ELSE IF c = "e" THEN "E" ELSE c

\* ToUpper left out
ToUpperNoop(s) == s

ToUpper(s) == [k \in 1..Len(s) |-> UpperChar(s[k])]

RECURSIVE TrimLeft(_)
TrimLeft(s) == IF s # <<>> /\ Head(s) \in Spaces THEN TrimLeft(Tail(s)) ELSE s

RECURSIVE TrimRight(_)
TrimRight(s) ==
    IF s # <<>> /\ s[Len(s)] \in Spaces THEN TrimRight(SubSeq(s, 1, Len(s) - 1)) ELSE s

TrimSpace(s) == TrimRight(TrimLeft(s))

----------------------------------------------------------------------------
(* Transport: doReq, makeReq, json.Unmarshal *)

\* an HTTP answer: the client fails (t = "doerr"), reading the body fails
\* (t = "readerr"), or a status and a body arrive (t = "http")
DoErr(m) == [t |-> "doerr", msg |-> m, status |-> 0, body |-> [text |-> "", valid |-> FALSE, doc |-> [none |-> TRUE]]]
ReadErr(m) == [t |-> "readerr", msg |-> m, status |-> 0, body |-> [text |-> "", valid |-> FALSE, doc |-> [none |-> TRUE]]]
Http(st, b) == [t |-> "http", msg |-> "", status |-> st, body |-> b]

\* a body: its text, and the document it decodes to when it is valid; a
\* document is a record named after what it holds
JsonBody(d) == [text |-> "{json}", valid |-> TRUE, doc |-> d]
BadBody(txt) == [text |-> txt, valid |-> FALSE, doc |-> [none |-> TRUE]]
NilBody == [text |-> "", valid |-> FALSE, doc |-> [none |-> TRUE]]

doReq(resp) ==
    IF resp.t = "doerr" THEN [body |-> NilBody, err |-> Error("transport", resp.msg)]
    ELSE IF resp.t = "readerr" THEN [body |-> NilBody, err |-> Error("transport", resp.msg)]
    ELSE IF resp.status # 200 THEN [body |-> NilBody, err |-> Error("transport", resp.body.text)]
    ELSE [body |-> resp.body, err |-> NoErr]

makeReq(resp) == doReq(resp)

\* json.Unmarshal(data, &v): v keeps its zero value when decoding fails
jsonUnmarshal(body, zero) ==
    IF body.text = "" THEN [v |-> zero, err |-> Error("decode", "unexpected end of JSON input")]
    ELSE IF ~body.valid THEN [v |-> zero, err |-> Error("decode", "invalid character")]
    ELSE [v |-> body.doc, err |-> NoErr]

\* a URL: the endpoint, and what fmt.Sprintf puts into it
Url(path, q) == [path |-> path, q |-> q]

\* one entry of the request log
Req(url, resp) == [url |-> url, resp |-> resp]

\* the request was not answered with 200 and a body
TransportFailed(resp) == resp.t # "http" \/ resp.status # 200

----------------------------------------------------------------------------
(* Listings, CoinID *)

NullListing == [null |-> TRUE, ID |-> 0, Symbol |-> <<>>]
Listing(id, sym) == [null |-> FALSE, ID |-> id, Symbol |-> sym]

\* what a call has come to, with the requests it issued
Result(v, e, p, rq) == [val |-> v, err |-> e, panic |-> p, reqs |-> rq]

\* Listings once json.Unmarshal has returned u: the error of makeReq is
\* overwritten by that of json.Unmarshal, which alone is tested
ListingsDecoded(u, rq) ==
    IF u.err # NoErr THEN Result(<<>>, u.err, FALSE, rq)
    ELSE Result(u.v.listings, NoErr, FALSE, rq)

Listings(resp) ==
    ListingsDecoded(jsonUnmarshal(makeReq(resp).body, [listings |-> <<>>]),
                    <<Req(Url("api/listings", <<>>), resp)>>)

\* the for-range scan of CoinID over listings from index k
RECURSIVE ScanListings(_, _, _)
ScanListings(listings, symbol, k) ==
    IF k > Len(listings) THEN Return(0, Error("notfound", "coin not found"))
    ELSE IF listings[k].null THEN [val |-> 0, err |-> NoErr, panic |-> TRUE]
    ELSE IF listings[k].Symbol = symbol THEN Return(listings[k].ID, NoErr)
    ELSE ScanListings(listings, symbol, k + 1)

WithReqs(r, rq) == Result(r.val, r.err, r.panic, rq)

\* CoinID once Listings has returned l
CoinIDScan(symbol, l) ==
    IF l.err # NoErr THEN Result(0, l.err, FALSE, l.reqs)
    ELSE WithReqs(ScanListings(l.val, symbol, 1), l.reqs)

CoinID(symbol, up) == CoinIDScan(ToUpper(TrimSpace(symbol)), Listings(up.listings))

----------------------------------------------------------------------------
(* Tickers *)

NullTicker == [null |-> TRUE, ID |-> 0, Slug |-> "", Rank |-> 0, Quotes |-> <<>>]
TickerRec(id, slug, rank, quotes) ==
    [null |-> FALSE, ID |-> id, Slug |-> slug, Rank |-> rank, Quotes |-> quotes]

\* the query parameters Tickers puts in the URL
TickersParams(options) ==
    (IF options.Start >= 0 THEN <<[k |-> "start", v |-> options.Start]>> ELSE <<>>)
    \o (IF options.Limit >= 0 THEN <<[k |-> "limit", v |-> options.Limit]>> ELSE <<>>)
    \o (IF options.Convert # "" THEN <<[k |-> "convert", v |-> options.Convert]>> ELSE <<>>)
    \o (IF options.Sort # "" THEN <<[k |-> "sort", v |-> options.Sort]>> ELSE <<>>)

\* the comparison the other way round
TickersLessDescending(a, b) == a.Rank > b.Rank

\* the less function handed to sort.Slice
TickersLess(a, b) == a.Rank < b.Rank

\* the error test skipped when the response also carries data
MetadataErrorUnlessData(body) == body.error # "" /\ DOMAIN body.tickers = {}

\* body.Metadata.Error != ""
MetadataError(body) == body.error # ""

Swap(s, j, k) == [s EXCEPT ![j] = s[k], ![k] = s[j]]

\* sort.Slice on a short slice is an insertion sort; less dereferences both
\* tickers, so a nil ticker panics.  Sink is the inner loop (j counts down).
RECURSIVE Sink(_, _)
Sink(s, j) ==
    IF j <= 1 THEN [s |-> s, panic |-> FALSE]
    ELSE IF s[j].null \/ s[j - 1].null THEN [s |-> s, panic |-> TRUE]
    ELSE IF TickersLess(s[j], s[j - 1]) THEN Sink(Swap(s, j, j - 1), j - 1)
    ELSE [s |-> s, panic |-> FALSE]

RECURSIVE SortSlice(_, _)
SortFrom(r, k) == IF r.panic THEN r ELSE SortSlice(r.s, k + 1)
SortSlice(s, k) ==
    IF k > Len(s) THEN [s |-> s, panic |-> FALSE]
    ELSE SortFrom(Sink(s, k), k)

\* Tickers once the tickers are sorted
TickersSorted(sorted, rq) ==
    IF sorted.panic THEN Result(<<>>, NoErr, TRUE, rq)
    ELSE Result(sorted.s, NoErr, FALSE, rq)

\* Tickers once json.Unmarshal has returned u; order is the order in which
\* range visits the keys of the data mapping
TickersDecoded(u, order, rq) ==
    IF u.err # NoErr THEN Result(<<>>, u.err, FALSE, rq)
    ELSE IF MetadataError(u.v) THEN Result(<<>>, Error("upstream", u.v.error), FALSE, rq)
    ELSE TickersSorted(SortSlice([k \in 1..Len(order) |-> u.v.tickers[order[k]]], 2), rq)

Tickers(options, resp, order) ==
    TickersDecoded(jsonUnmarshal(makeReq(resp).body, [tickers |-> <<>>, error |-> ""]), order,
                   <<Req(Url("api/ticker", TickersParams(options)), resp)>>)

----------------------------------------------------------------------------
(* Ticker, CoinSlug, Price, TickerGraph *)

ConvertParams(options) ==
    IF options.Convert # "" THEN <<[k |-> "convert", v |-> options.Convert]>> ELSE <<>>

\* a fetcher that tests the error of makeReq (r) and then decodes
DecodeChecked(r, u, rq) ==
    IF r.err # NoErr THEN Result([data |-> <<>>], r.err, FALSE, rq)
    ELSE IF u.err # NoErr THEN Result([data |-> <<>>], u.err, FALSE, rq)
    ELSE Result(u.v, NoErr, FALSE, rq)

\* Ticker once makeReq has returned r and json.Unmarshal u
TickerFetched(r, u, rq) ==
    IF r.err # NoErr THEN Result(NullTicker, r.err, FALSE, rq)
    ELSE IF u.err # NoErr THEN Result(NullTicker, u.err, FALSE, rq)
    ELSE Result(u.v.ticker, NoErr, FALSE, rq)

\* the error of CoinID not looked at
TickerAfterCoinIDUnchecked(options, up, c) ==
    IF c.panic THEN Result(NullTicker, c.err, c.panic, c.reqs)
    ELSE TickerFetched(makeReq(up.ticker), jsonUnmarshal(makeReq(up.ticker).body, [ticker |-> NullTicker]),
                       c.reqs \o <<Req(Url("api/ticker/id", <<c.val, ConvertParams(options)>>), up.ticker)>>)

\* Ticker once CoinID has returned c
TickerAfterCoinID(options, up, c) ==
    IF c.panic \/ c.err # NoErr THEN Result(NullTicker, c.err, c.panic, c.reqs)
    ELSE TickerFetched(makeReq(up.ticker), jsonUnmarshal(makeReq(up.ticker).body, [ticker |-> NullTicker]),
                       c.reqs \o <<Req(Url("api/ticker/id", <<c.val, ConvertParams(options)>>), up.ticker)>>)

Ticker(options, up) == TickerAfterCoinID(options, up, CoinID(options.Symbol, up))

\* CoinSlug once Ticker has returned t
CoinSlugOf(t) ==
    IF t.panic \/ t.err # NoErr THEN Result("", t.err, t.panic, t.reqs)
    ELSE IF t.val.null THEN Result("", Error("notfound", "coin not found"), FALSE, t.reqs)
    ELSE Result(t.val.Slug, NoErr, FALSE, t.reqs)

CoinSlug(symbol, up) == CoinSlugOf(Ticker([Symbol |-> ToUpper(TrimSpace(symbol)), Convert |-> ""], up))

\* Price once Ticker has returned t.  missing: what indexing Quotes by a
\* currency it lacks does ("zero": the zero quote, "panic": a nil quote is
\* dereferenced); the Quotes type decides
PriceOf(options, t, missing) ==
    IF t.panic \/ t.err # NoErr THEN Result(0, t.err, t.panic, t.reqs)
    ELSE IF t.val.null THEN Result(0, Error("notfound", "coin not found"), FALSE, t.reqs)
    ELSE IF options.Convert \in DOMAIN t.val.Quotes
    THEN Result(t.val.Quotes[options.Convert], NoErr, FALSE, t.reqs)
    ELSE Result(0, NoErr, missing = "panic", t.reqs)

Price(options, up, missing) ==
    PriceOf(options, Ticker([Symbol |-> options.Symbol, Convert |-> options.Convert], up), missing)

\* TickerGraph once CoinSlug has returned s
TickerGraphAfterSlug(options, up, s) ==
    IF s.panic \/ s.err # NoErr THEN Result([data |-> <<>>], s.err, s.panic, s.reqs)
    ELSE DecodeChecked(makeReq(up.graph), jsonUnmarshal(makeReq(up.graph).body, [data |-> <<>>]),
                       s.reqs \o <<Req(Url("graphs/currencies",
                                           <<s.val, options.Start * 1000, options.End * 1000>>), up.graph)>>)

TickerGraph(options, up) == TickerGraphAfterSlug(options, up, CoinSlug(options.Symbol, up))

----------------------------------------------------------------------------
(* GlobalMarket, GlobalMarketGraph, GlobalAltcoinMarketGraph *)

\* GlobalMarket once json.Unmarshal has returned u: as in Listings, only the
\* error of json.Unmarshal is tested
GlobalMarketDecoded(u, rq) ==
    IF u.err # NoErr THEN Result(<<>>, u.err, FALSE, rq)
    ELSE Result(u.v.data, NoErr, FALSE, rq)

GlobalMarket(options, resp) ==
    GlobalMarketDecoded(jsonUnmarshal(makeReq(resp).body, [data |-> <<>>]),
                        <<Req(Url("api/global", ConvertParams(options)), resp)>>)

GlobalMarketGraph(options, resp) ==
    DecodeChecked(makeReq(resp), jsonUnmarshal(makeReq(resp).body, [data |-> <<>>]),
                  <<Req(Url("graphs/global/marketcap-total",
                            <<options.Start * 1000, options.End * 1000>>), resp)>>)

GlobalAltcoinMarketGraph(options, resp) ==
    DecodeChecked(makeReq(resp), jsonUnmarshal(makeReq(resp).body, [data |-> <<>>]),
                  <<Req(Url("graphs/global/marketcap-altcoin",
                            <<options.Start * 1000, options.End * 1000>>), resp)>>)

----------------------------------------------------------------------------
(* toInt, toFloat, toDate *)

Digits == {"0", "1", "2", "3", "4", "5", "6", "7", "8", "9"}

DigitVal(c) ==
    CASE c = "0" -> 0 [] c = "1" -> 1 [] c = "2" -> 2 [] c = "3" -> 3 [] c = "4" -> 4
      [] c = "5" -> 5 [] c = "6" -> 6 [] c = "7" -> 7 [] c = "8" -> 8 [] c = "9" -> 9

\* strings.Replace(s, c, "", -1) for each c in drop
RECURSIVE Strip(_, _)
Strip(s, drop) ==
    IF s = <<>> THEN <<>>
    ELSE IF Head(s) \in drop THEN Strip(Tail(s), drop)
    ELSE <<Head(s)>> \o Strip(Tail(s), drop)

AllDigits(s) == \A k \in 1..Len(s) : s[k] \in Digits

\* the number the first k digits of s write
RECURSIVE DigitsUpTo(_, _)
DigitsUpTo(s, k) == IF k = 0 THEN 0 ELSE 10 * DigitsUpTo(s, k - 1) + DigitVal(s[k])

DigitsVal(s) == DigitsUpTo(s, Len(s))

\* the sign a number starts with, and the rest
Signed(s) ==
    IF s # <<>> /\ Head(s) = "-" THEN [neg |-> TRUE, rest |-> Tail(s)]
    ELSE IF s # <<>> /\ Head(s) = "+" THEN [neg |-> FALSE, rest |-> Tail(s)]
    ELSE [neg |-> FALSE, rest |-> s]

\* strconv.Atoi: ok is FALSE where it returns an error
Atoi(s) ==
    LET sg == Signed(s)
    IN IF sg.rest = <<>> \/ ~AllDigits(sg.rest) THEN [ok |-> FALSE, n |-> 0]
       ELSE [ok |-> TRUE, n |-> IF sg.neg THEN 0 - DigitsVal(sg.rest) ELSE DigitsVal(sg.rest)]

\* the replacements are made first, Atoi reads what they give
toInt(rawInt) == CHOOSE n \in {Atoi(s).n : s \in {Strip(rawInt, {"$", ","})}} : TRUE

\* a float is m * 10^-e, with no trailing zero in the fraction
RECURSIVE Dec(_, _)
Dec(m, e) == IF e > 0 /\ m % 10 = 0 THEN Dec(m \div 10, e - 1) ELSE [m |-> m, e |-> e]

PointAt(s) == IF \E k \in 1..Len(s) : s[k] = "." THEN CHOOSE k \in 1..Len(s) : s[k] = "." /\ \A j \in 1..(k - 1) : s[j] # "." ELSE 0

\* strconv.ParseFloat on decimal text: [sign] digits [. digits]
ParseFloat(s) ==
    LET sg == Signed(s)
        p == PointAt(sg.rest)
        int == IF p = 0 THEN sg.rest ELSE SubSeq(sg.rest, 1, p - 1)
        frac == IF p = 0 THEN <<>> ELSE SubSeq(sg.rest, p + 1, Len(sg.rest))
        mag == DigitsVal(int \o frac)
    IN IF (int = <<>> /\ frac = <<>>) \/ ~AllDigits(int) \/ ~AllDigits(frac)
       THEN [ok |-> FALSE, f |-> [m |-> 0, e |-> 0]]
       ELSE [ok |-> TRUE, f |-> Dec(IF sg.neg THEN 0 - mag ELSE mag, Len(frac))]

toFloat(rawFloat) == CHOOSE f \in {ParseFloat(s).f : s \in {Strip(rawFloat, {"$", ",", "%"})}} : TRUE

\* f / 100
Div100(f) == Dec(f.m, f.e + 2)

ZeroTime == [y |-> 1, m |-> 1, d |-> 1]

DaysIn(m, y) ==
    IF m = 2 THEN (IF y % 4 = 0 /\ (y % 100 # 0 \/ y % 400 = 0) THEN 29 ELSE 28)
    ELSE IF m \in {4, 6, 9, 11} THEN 30 ELSE 31

\* time.Parse("2006-01-02", rawTime), the zero time on error
toDate(rawTime) ==
    LET y == DigitsVal(SubSeq(rawTime, 1, 4))
        m == DigitsVal(SubSeq(rawTime, 6, 7))
        d == DigitsVal(SubSeq(rawTime, 9, 10))
    IN IF /\ Len(rawTime) = 10
          /\ rawTime[5] = "-" /\ rawTime[8] = "-"
          /\ AllDigits(SubSeq(rawTime, 1, 4))
          /\ AllDigits(SubSeq(rawTime, 6, 7))
          /\ AllDigits(SubSeq(rawTime, 9, 10))
          /\ m \in 1..12 /\ d >= 1 /\ d <= DaysIn(m, y)
       THEN [y |-> y, m |-> m, d |-> d]
       ELSE ZeroTime

----------------------------------------------------------------------------
(* Markets *)

\* a td cell: its data-sort attribute (hasSort: whether it has one), its
\* text, the href of the link in it and the src of the image in it
Cell(hasSort, sort, text, hasHref, href, hasSrc, src) ==
    [hasSort |-> hasSort, sort |-> sort, text |-> text,
     hasHref |-> hasHref, href |-> href, hasSrc |-> hasSrc, src |-> src]

\* link_parts[len(link_parts)-1] of strings.Split(link, "/")
LastPart(link) ==
    LET slashes == {k \in 1..Len(link) : link[k] = "/"}
        last == IF slashes = {} THEN 0 ELSE CHOOSE k \in slashes : \A j \in slashes : j <= k
    IN SubSeq(link, last + 1, Len(link))

\* strings.TrimSuffix(href, "/")
TrimSuffixSlash(href) ==
    IF href # <<>> /\ href[Len(href)] = "/" THEN SubSeq(href, 1, Len(href) - 1) ELSE href

\* columns a row of the markets table is indexed up to (data[8])
MarketCols == 9

\* the test with != for the slug
MarketsOptionsEmptyTypo(options) == options.Slug # "" /\ options.Symbol = <<>>

\* options.Slug == "" && options.Symbol == ""
MarketsOptionsEmpty(options) == options.Slug = "" /\ options.Symbol = <<>>

\* the text Markets takes from a cell
MarketCell(column) == IF column.sort # <<>> THEN column.sort ELSE column.text

\* one row of the table to a Market; indexing data past its length panics
MarketRow(row) ==
    LET data == [k \in 1..Len(row) |-> MarketCell(row[k])]
        exchangeSlug == IF Len(row) >= 2 /\ row[2].hasHref THEN LastPart(row[2].href) ELSE <<>>
    IN IF Len(data) < MarketCols THEN Panic("index out of range")
       ELSE Return([Rank |-> toInt(data[1]),
                    Exchange |-> data[2],
                    ExchangeSlug |-> exchangeSlug,
                    Pair |-> data[3],
                    VolumeUSD |-> toFloat(data[4]),
                    Price |-> toFloat(data[5]),
                    VolumePercent |-> toFloat(data[6]),
                    Category |-> data[7],
                    FeeType |-> data[8],
                    Updated |-> data[9]], NoErr)

\* a row put in front of the rows after it; the first panic ends the loop
ConsRow(r, rest) ==
    IF r.panic THEN r
    ELSE IF rest.panic THEN rest
    ELSE Return(<<r.val>> \o rest.val, NoErr)

\* the for-range loop of Markets over rows from index k
RECURSIVE MarketRows(_, _)
MarketRows(rows, k) ==
    IF k > Len(rows) THEN Return(<<>>, NoErr)
    ELSE ConsRow(MarketRow(rows[k]), MarketRows(rows, k + 1))

\* soup.Get: an error when the request or the read fails, the body otherwise
\* (the status is not looked at)
soupGet(resp) ==
    IF resp.t # "http" THEN [body |-> NilBody, err |-> Error("transport", resp.msg)]
    ELSE [body |-> resp.body, err |-> NoErr]

\* Markets once soup.Get has returned g
MarketsPage(g, rq) ==
    IF g.err # NoErr THEN Result(<<>>, g.err, FALSE, rq)
    ELSE WithReqs(MarketRows(g.body.doc.rows, 1), rq)

\* Markets once the slug is known (s: what CoinSlug returned, or the Slug
\* of the options)
MarketsAfterSlug(up, s) ==
    IF s.panic \/ s.err # NoErr THEN Result(<<>>, s.err, s.panic, s.reqs)
    ELSE MarketsPage(soupGet(up.page),
                     s.reqs \o <<Req(Url("site/currencies/markets", <<s.val>>), up.page)>>)

Markets(options, up) ==
    IF options.nil THEN Result(<<>>, Error("invalid", "nil options"), FALSE, <<>>)
    ELSE IF MarketsOptionsEmpty(options)
    THEN Result(<<>>, Error("invalid", "empty slug and Symbol"), FALSE, <<>>)
    ELSE IF options.Slug = "" THEN MarketsAfterSlug(up, CoinSlug(options.Symbol, up))
    ELSE MarketsAfterSlug(up, Result(options.Slug, NoErr, FALSE, <<>>))

----------------------------------------------------------------------------
(* ExchangesByPage, Exchanges *)

\* columns a row of the exchange rankings is indexed up to (data[9])
ExchangeCols == 10

\* the text ExchangesByPage takes from a cell
ExchangeCell(selection) == IF selection.hasSort THEN selection.sort ELSE selection.text

ExchangeRow(tr) ==
    LET data == [k \in 1..Len(tr) |-> ExchangeCell(tr[k])]
        exchangeSlug == IF Len(tr) >= 2 /\ tr[2].hasHref
                        THEN LastPart(TrimSuffixSlash(tr[2].href)) ELSE <<>>
        exchangeLogo == IF Len(tr) >= 2 /\ tr[2].hasSrc THEN tr[2].src ELSE <<>>
    IN IF Len(data) < ExchangeCols THEN Panic("index out of range")
       ELSE Return([Rank |-> toInt(data[1]),
                    Name |-> data[2],
                    Slug |-> exchangeSlug,
                    LogoImg |-> exchangeLogo,
                    AdjustVolume24h |-> toFloat(data[3]),
                    Volume24h |-> toFloat(data[4]),
                    Volume7d |-> toFloat(data[5]),
                    Volume30d |-> toFloat(data[6]),
                    MarketsNumber |-> toInt(data[7]),
                    Change24h |-> Div100(toFloat(data[8])),
                    LaunchedAt |-> toDate(data[10])], NoErr)

\* the loop of ExchangesByPage over trElems from index tri
RECURSIVE ExchangeRows(_, _)
ExchangeRows(trElems, tri) ==
    IF tri > Len(trElems) THEN Return(<<>>, NoErr)
    ELSE ConsRow(ExchangeRow(trElems[tri]), ExchangeRows(trElems, tri + 1))

\* the page number ExchangesByPage puts in the URL
ExchangesPageURL(page) == Url("site/rankings/exchanges", <<IF page = 0 THEN 1 ELSE page>>)

\* goquery.NewDocument fails when the request or the read fails
ExchangesByPage(page, resp) ==
    IF resp.t # "http" THEN Return(<<>>, Error("transport", resp.msg))
    ELSE ExchangeRows(resp.body.doc.rows, 1)

\* the page put in front of the exchanges so far
ExchangesIterPrepend(n, acc, r) ==
    IF r.panic THEN [pc |-> "panic", i |-> n, exchanges |-> acc, ret |-> [val |-> <<>>, err |-> NoErr, panic |-> TRUE]]
    ELSE IF Len(r.val) = 0
    THEN [pc |-> "done", i |-> n, exchanges |-> acc, ret |-> Return(acc, NoErr)]
    ELSE IF r.err # NoErr
    THEN [pc |-> "done", i |-> n, exchanges |-> acc,
          ret |-> Return(<<>>, Error("wrapped", "Exchanges error: " \o r.err.msg))]
    ELSE [pc |-> "loop", i |-> IntInc(n), exchanges |-> r.val \o acc,
          ret |-> [val |-> <<>>, err |-> NoErr, panic |-> FALSE]]

\* the loop carried on after a page without exchanges
ExchangesIterContinue(n, acc, r) ==
    IF r.panic THEN [pc |-> "panic", i |-> n, exchanges |-> acc, ret |-> [val |-> <<>>, err |-> NoErr, panic |-> TRUE]]
    ELSE [pc |-> "loop", i |-> IntInc(n), exchanges |-> acc \o r.val,
          ret |-> [val |-> <<>>, err |-> NoErr, panic |-> FALSE]]

\* one pass of the loop body of Exchanges on the answer r of ExchangesByPage
ExchangesIter(n, acc, r) ==
    IF r.panic THEN [pc |-> "panic", i |-> n, exchanges |-> acc, ret |-> [val |-> <<>>, err |-> NoErr, panic |-> TRUE]]
    ELSE IF Len(r.val) = 0
    THEN [pc |-> "done", i |-> n, exchanges |-> acc, ret |-> Return(acc, NoErr)]
    ELSE IF r.err # NoErr
    THEN [pc |-> "done", i |-> n, exchanges |-> acc,
          ret |-> Return(<<>>, Error("wrapped", "Exchanges error: " \o r.err.msg))]
    ELSE [pc |-> "loop", i |-> IntInc(n), exchanges |-> acc \o r.val,
          ret |-> [val |-> <<>>, err |-> NoErr, panic |-> FALSE]]

----------------------------------------------------------------------------
(* Inputs: what callers pass and what the upstream answers *)

Chars(str) ==
    CASE str = "$1,234.5" -> <<"$", "1", ",", "2", "3", "4", ".", "5">>
      [] str = "12.3%" -> <<"1", "2", ".", "3", "%">>
      [] str = "N/A" -> <<"N", "/", "A">>
      [] str = "2018-01-02" -> <<"2", "0", "1", "8", "-", "0", "1", "-", "0", "2">>
      [] str = "2018-02-30" -> <<"2", "0", "1", "8", "-", "0", "2", "-", "3", "0">>
      [] str = "-7" -> <<"-", "7">>
      [] str = "/x/b" -> <<"/", "x", "/", "b">>
      [] str = "/x/b/" -> <<"/", "x", "/", "b", "/">>
      [] str = "logo.png" -> <<"l", "o", "g", "o">>
      [] str = "" -> <<>>

Symbols == SeqsUpTo(Letters \cup Spaces, MaxSymLen)

\* symbols for the calls that chain several requests
ChainSymbols == {<<>>, <<"b">>, <<" ", "B">>, <<"e">>}

ListingSamples == {NullListing} \cup
    {Listing(id, sym) : id \in 1..2, sym \in {<<"B">>, <<"b">>, <<"E", "B">>}}

FailedAnswers == {DoErr("dial tcp: refused"), ReadErr("unexpected EOF"), Http(500, BadBody("oops"))}

ListingsAnswers ==
    FailedAnswers \cup {Http(200, BadBody("<html>"))} \cup
    {Http(200, JsonBody([listings |-> d])) : d \in SeqsUpTo(ListingSamples, MaxListings)}

ChainListingsAnswers ==
    {DoErr("dial tcp: refused"), Http(500, BadBody("oops")),
     Http(200, JsonBody([listings |-> <<>>])),
     Http(200, JsonBody([listings |-> <<NullListing>>])),
     Http(200, JsonBody([listings |-> <<Listing(1, <<"B">>)>>]))}

QuoteSamples == {[c \in {"USD"} |-> 100], [c \in {"USD", "EUR"} |-> IF c = "USD" THEN 100 ELSE 90]}

TickerAnswers ==
    {DoErr("dial tcp: refused"), Http(500, BadBody("oops")), Http(200, BadBody("<html>")),
     Http(200, JsonBody([ticker |-> NullTicker]))} \cup
    {Http(200, JsonBody([ticker |-> TickerRec(1, "bitcoin", 1, q)])) : q \in QuoteSamples}

\* the keys of a tickers response are the coin ids 1..MaxTickers; a value is
\* null or a ticker of rank 1 or 2
TickerValues(k) == {NullTicker} \cup {TickerRec(k, "coin", rank, <<>>) : rank \in 1..2}

TickersData ==
    UNION {{d \in [K -> UNION {TickerValues(k) : k \in K}] : \A k \in K : d[k] \in TickerValues(k)} :
           K \in SUBSET (1..MaxTickers)}

TickersAnswers ==
    FailedAnswers \cup {Http(200, BadBody("<html>"))} \cup
    {Http(200, JsonBody([tickers |-> d, error |-> e])) : d \in TickersData, e \in {"", "id not found"}}

TickersOptionsSet ==
    [Start : {-1, 0}, Limit : {-1, 5}, Convert : {"", "EUR"}, Sort : {"", "rank"}]

\* the orders in which range can visit the keys K of a map
Orders(K) == {o \in [1..Cardinality(K) -> K] : \A a, b \in 1..Cardinality(K) : o[a] = o[b] => a = b}

\* the keys of the data mapping that Tickers decodes from resp
DataKeys(resp) ==
    IF ~TransportFailed(resp) /\ resp.body.valid THEN DOMAIN resp.body.doc.tickers ELSE {}

OpaqueAnswers ==
    FailedAnswers \cup {Http(200, BadBody("<html>")), Http(200, JsonBody([data |-> <<1, 2>>]))}

GraphOptionsSet == [Start : {0, 1}, End : {2}]

\* rows of a scraped table: n cells with the same text; the second cell
\* carries the link and the image
CellTexts == {"$1,234.5", "12.3%", "N/A", "2018-01-02", "2018-02-30"}
SortAttrs == {[has |-> FALSE, v |-> ""], [has |-> TRUE, v |-> ""], [has |-> TRUE, v |-> "-7"]}
Links == {[has |-> FALSE, v |-> ""], [has |-> TRUE, v |-> "/x/b"], [has |-> TRUE, v |-> "/x/b/"]}

RowOf(n, text, sort, link) ==
    [k \in 1..n |-> Cell(sort.has, Chars(sort.v), Chars(text),
                         k = 2 /\ link.has, IF k = 2 THEN Chars(link.v) ELSE <<>>,
                         k = 2 /\ link.has, IF k = 2 /\ link.has THEN Chars("logo.png") ELSE <<>>)]

RowSamples == {RowOf(n, t, s, l) : n \in 0..MaxCols, t \in CellTexts, s \in SortAttrs, l \in Links}

PlainLink == [has |-> TRUE, v |-> "/x/b/"]
NoSort == [has |-> FALSE, v |-> ""]

HtmlBody(rows) == [text |-> "<html>", valid |-> TRUE, doc |-> [rows |-> rows]]

MarketPages ==
    {<<>>} \cup {<<r>> : r \in RowSamples} \cup
    {<<RowOf(n1, "$1,234.5", NoSort, PlainLink), RowOf(n2, "12.3%", NoSort, PlainLink)>> :
        n1, n2 \in {MarketCols - 1, MarketCols}}

MarketPageAnswers ==
    {DoErr("dial tcp: refused"), ReadErr("unexpected EOF")} \cup
    {Http(200, HtmlBody(rows)) : rows \in MarketPages}

ChainPageAnswers ==
    {DoErr("dial tcp: refused"),
     Http(200, HtmlBody(<<RowOf(MarketCols, "$1,234.5", NoSort, PlainLink)>>)),
     Http(404, HtmlBody(<<>>))}

MarketsOptionsSet ==
    {[nil |-> TRUE, Symbol |-> <<>>, Slug |-> ""]} \cup
    {[nil |-> FALSE, Symbol |-> sym, Slug |-> slug] : sym \in ChainSymbols, slug \in {"", "bitcoin"}}

ExchangeA == RowOf(ExchangeCols, "$1,234.5", NoSort, PlainLink)
ExchangeB == RowOf(ExchangeCols, "2018-01-02", [has |-> TRUE, v |-> "-7"], [has |-> TRUE, v |-> "/x/b"])

ExchangePages ==
    {<<>>, <<ExchangeA>>, <<ExchangeB, ExchangeA>>, <<ExchangeA, RowOf(ExchangeCols - 1, "N/A", NoSort, PlainLink)>>}

ExchangePageAnswers ==
    {DoErr("dial tcp: refused"), Http(500, HtmlBody(<<>>))} \cup
    {Http(200, HtmlBody(rows)) : rows \in ExchangePages}

Pending == [t |-> "pending", msg |-> "", status |-> 0, body |-> NilBody]

----------------------------------------------------------------------------
(* The calls *)

\* a behaviour is one call made by a fresh caller
Idle == pc = "idle"

\* the state holds values of every type the package returns: each is kept
\* under the name of the function it belongs to
Ret(o, r) == [val |-> [t \in {o} |-> r.val], err |-> r.err, panic |-> r.panic]

Finish(o, a, r) ==
    /\ op' = o
    /\ args' = [t \in {o} |-> a]
    /\ reqs' = r.reqs
    /\ ret' = Ret(o, r)
    /\ pc' = IF r.panic THEN "panic" ELSE "done"
    /\ i' = 0
    /\ exchanges' = <<>>

CallListings ==
    /\ Idle
    /\ \E resp \in ListingsAnswers :
          Finish("Listings", <<>>, Listings(resp))

CallTickers ==
    /\ Idle
    /\ \E options \in TickersOptionsSet, resp \in TickersAnswers :
          \E order \in Orders(DataKeys(resp)) :
             Finish("Tickers", [options |-> options, order |-> order], Tickers(options, resp, order))

CallTicker ==
    /\ Idle
    /\ \E symbol \in ChainSymbols, convert \in {"", "EUR"},
          l \in ChainListingsAnswers, t \in TickerAnswers :
          Finish("Ticker", [Symbol |-> symbol, Convert |-> convert],
                 Ticker([Symbol |-> symbol, Convert |-> convert], [listings |-> l, ticker |-> t]))

CallTickerGraph ==
    /\ Idle
    /\ \E symbol \in ChainSymbols, o \in GraphOptionsSet,
          l \in ChainListingsAnswers, t \in TickerAnswers, g \in OpaqueAnswers :
          Finish("TickerGraph", [Symbol |-> symbol, Start |-> o.Start, End |-> o.End],
                 TickerGraph([Symbol |-> symbol, Start |-> o.Start, End |-> o.End],
                             [listings |-> l, ticker |-> t, graph |-> g]))

CallGlobalMarket ==
    /\ Idle
    /\ \E convert \in {"", "EUR"}, resp \in OpaqueAnswers :
          Finish("GlobalMarket", [Convert |-> convert], GlobalMarket([Convert |-> convert], resp))

CallGlobalMarketGraph ==
    /\ Idle
    /\ \E o \in GraphOptionsSet, resp \in OpaqueAnswers :
          Finish("GlobalMarketGraph", o, GlobalMarketGraph(o, resp))

CallGlobalAltcoinMarketGraph ==
    /\ Idle
    /\ \E o \in GraphOptionsSet, resp \in OpaqueAnswers :
          Finish("GlobalAltcoinMarketGraph", o, GlobalAltcoinMarketGraph(o, resp))

CallMarkets ==
    /\ Idle
    /\ \/ \E options \in MarketsOptionsSet, l \in ChainListingsAnswers,
             t \in TickerAnswers, p \in ChainPageAnswers :
             Finish("Markets", options, Markets(options, [listings |-> l, ticker |-> t, page |-> p]))
       \/ \E p \in MarketPageAnswers :
             Finish("Markets", [nil |-> FALSE, Symbol |-> <<>>, Slug |-> "bitcoin"],
                    Markets([nil |-> FALSE, Symbol |-> <<>>, Slug |-> "bitcoin"],
                            [listings |-> Pending, ticker |-> Pending, page |-> p]))

CallExchangesByPage ==
    /\ Idle
    /\ \E page \in 0..2, resp \in ExchangePageAnswers :
          LET r == ExchangesByPage(page, resp)
          IN Finish("ExchangesByPage", [page |-> page],
                    [val |-> r.val, err |-> r.err, panic |-> r.panic,
                     reqs |-> <<Req(ExchangesPageURL(page), resp)>>])

CallPrice ==
    /\ Idle
    /\ \E symbol \in ChainSymbols, convert \in {"", "USD", "EUR"},
          l \in ChainListingsAnswers, t \in TickerAnswers, missing \in {"zero", "panic"} :
          Finish("Price", [Symbol |-> symbol, Convert |-> convert],
                 Price([Symbol |-> symbol, Convert |-> convert], [listings |-> l, ticker |-> t], missing))

CallCoinID ==
    /\ Idle
    /\ \E symbol \in Symbols, resp \in ListingsAnswers :
          Finish("CoinID", [symbol |-> symbol], CoinID(symbol, [listings |-> resp]))

CallCoinSlug ==
    /\ Idle
    /\ \E symbol \in ChainSymbols, l \in ChainListingsAnswers, t \in TickerAnswers :
          Finish("CoinSlug", [symbol |-> symbol], CoinSlug(symbol, [listings |-> l, ticker |-> t]))

\* Exchanges: var exchanges; i := 1
CallExchanges ==
    /\ Idle
    /\ op' = "Exchanges"
    /\ args' = [t \in {"Exchanges"} |-> <<>>]
    /\ pc' = "loop"
    /\ i' = 1
    /\ exchanges' = <<>>
    /\ UNCHANGED <<reqs, ret>>

\* i > 0 holds: ExchangesByPage(i) sends its request
ExchangesRequest ==
    /\ pc = "loop"
    /\ i > 0
    /\ reqs' = Append(reqs, Req(ExchangesPageURL(i), Pending))
    /\ pc' = "wait"
    /\ UNCHANGED <<op, args, ret, i, exchanges>>

\* the upstream answers the request in flight
UpstreamAnswer ==
    /\ pc = "wait"
    /\ \E resp \in ExchangePageAnswers :
          reqs' = [reqs EXCEPT ![Len(reqs)].resp = resp]
    /\ pc' = "got"
    /\ UNCHANGED <<op, args, ret, i, exchanges>>

\* ExchangesByPage(i) returns and the loop body runs
ExchangesPage ==
    /\ pc = "got"
    /\ \E pageExchanges \in {ExchangesByPage(i, reqs[Len(reqs)].resp)} :
       \E it \in {ExchangesIter(i, exchanges, pageExchanges)} :
          /\ pc' = it.pc
          /\ i' = it.i
          /\ exchanges' = it.exchanges
          /\ ret' = Ret("Exchanges", it.ret)
    /\ UNCHANGED <<op, args, reqs>>

\* i > 0 fails: return exchanges, nil
ExchangesReturn ==
    /\ pc = "loop"
    /\ ~(i > 0)
    /\ ret' = Ret("Exchanges", Return(exchanges, NoErr))
    /\ pc' = "done"
    /\ UNCHANGED <<op, args, reqs, i, exchanges>>

Init ==
    /\ op = "none"
    /\ args = [t \in {"none"} |-> <<>>]
    /\ reqs = <<>>
    /\ ret = Ret("none", Return(<<>>, NoErr))
    /\ pc = "idle"
    /\ i = 0
    /\ exchanges = <<>>

Program ==
    \/ CallListings
    \/ CallTickers
    \/ CallTicker
    \/ CallTickerGraph
    \/ CallGlobalMarket
    \/ CallGlobalMarketGraph
    \/ CallGlobalAltcoinMarketGraph
    \/ CallMarkets
    \/ CallExchangesByPage
    \/ CallPrice
    \/ CallCoinID
    \/ CallCoinSlug
    \/ CallExchanges
    \/ ExchangesRequest
    \/ ExchangesPage
    \/ ExchangesReturn

Next == Program \/ UpstreamAnswer

Spec == Init /\ [][Next]_vars

\* the program takes its next step whenever it has one; nothing makes the
\* upstream answer (the requests carry no timeout)
LiveSpec == Spec /\ WF_vars(ExchangesRequest) /\ WF_vars(ExchangesPage) /\ WF_vars(ExchangesReturn)

----------------------------------------------------------------------------
(* Properties *)

Called(o) == op = o /\ pc \in {"done", "panic"}

\* the answer to the k-th request of the call
Answer(k) == reqs[k].resp

\* ExchangesByPage got no document for this answer
PageFailed(resp) == resp.t \in {"doerr", "readerr"}

\* the page of this answer has no row
PageEmpty(resp) == resp.t = "http" /\ resp.body.doc.rows = <<>>

\* the message of the transport error for a failed answer
TransportMsg(resp) == IF resp.t = "http" THEN resp.body.text ELSE resp.msg

\* C1: when a page request of Exchanges fails, Exchanges returns no exchanges
\* and an error whose message is "Exchanges error: " followed by the message
\* of the page error, however many pages succeeded before.
C1_PageErrorAborts ==
    \A k \in 1..Len(reqs) :
        (Called("Exchanges") /\ PageFailed(Answer(k)))
            => /\ ret.val[op] = <<>>
               /\ ret.err.msg = "Exchanges error: " \o Answer(k).msg

RECURSIVE PagesConcat(_)
PagesConcat(n) ==
    IF n = 0 THEN <<>> ELSE PagesConcat(n - 1) \o ExchangesByPage(n, Answer(n)).val

\* the first request answered with a page without rows, 0 if there is none
FirstEmpty ==
    IF \E k \in 1..Len(reqs) : PageEmpty(Answer(k))
    THEN CHOOSE k \in 1..Len(reqs) : PageEmpty(Answer(k)) /\ \A j \in 1..(k - 1) : ~PageEmpty(Answer(j))
    ELSE 0

AllPagesFetched == \A k \in 1..Len(reqs) : Answer(k).t = "http"

\* C2: when every page fetch succeeds, Exchanges returns the concatenation in
\* page order of pages 1, 2, ... before the first page without rows; the
\* pages requested are exactly 1 .. that page, each once and in order.
C2_Concatenation ==
    (op = "Exchanges" /\ pc = "done" /\ AllPagesFetched /\ FirstEmpty # 0)
        => /\ ret.err = NoErr
           /\ ret.val[op] = PagesConcat(FirstEmpty - 1)
           /\ Len(reqs) = FirstEmpty
           /\ \A k \in 1..Len(reqs) : reqs[k].url = ExchangesPageURL(k) /\ reqs[k].url.q = <<k>>

C2_Witness ==
    /\ op = "Exchanges" /\ pc = "done" /\ AllPagesFetched
    /\ Len(reqs) = 3 /\ FirstEmpty = 3
    /\ Answer(1) # Answer(2)
    /\ Len(ret.val[op]) = 3

\* C3 as stated: whatever the upstream does, a call of Exchanges ends.
C3_AlwaysTerminates == [](op = "Exchanges" => <>(pc \in {"done", "panic"}))

\* the request in flight has just been answered by a failure or an empty page
StopAnswered == pc = "got" /\ (PageFailed(Answer(Len(reqs))) \/ PageEmpty(Answer(Len(reqs))))

\* C3 amended: Exchanges returns once a page request is answered by a failure
\* or by a page without rows.
C3_TerminatesOnStopAnswer == [](StopAnswered => <>(pc = "done"))

C3_Witness ==
    /\ op = "Exchanges" /\ pc = "done"
    /\ Len(reqs) = 2
    /\ ~PageEmpty(Answer(1)) /\ PageEmpty(Answer(2))
    /\ ret.val[op] # <<>>

\* C4: Markets with Symbol and Slug both empty fails with the invalid-argument
\* error and issues no network request.
C4_EmptyOptionsNoRequest ==
    (Called("Markets") /\ ~args[op].nil /\ args[op].Symbol = <<>> /\ args[op].Slug = "")
        => /\ pc = "done"
           /\ ret.err.msg = "empty slug and Symbol"
           /\ ret.val[op] = <<>>
           /\ reqs = <<>>

C4_Witness ==
    /\ Called("Markets") /\ ~args[op].nil /\ args[op].Symbol = <<>> /\ args[op].Slug = ""
    /\ ret.err # NoErr

\* the response of Tickers was decoded
TickersAnswerDecoded == Called("Tickers") /\ ~TransportFailed(Answer(1)) /\ Answer(1).body.valid

\* C5: Tickers fails with the message of the metadata error field whenever
\* that field of the decoded response is not empty, whether or not data is
\* populated, and returns no tickers then.
C5_UpstreamError ==
    (TickersAnswerDecoded /\ Answer(1).body.doc.error # "")
        => /\ pc = "done"
           /\ ret.err.msg = Answer(1).body.doc.error
           /\ ret.val[op] = <<>>

C5_Witness ==
    /\ TickersAnswerDecoded
    /\ Answer(1).body.doc.error # ""
    /\ Cardinality(DOMAIN Answer(1).body.doc.tickers) >= 2
    /\ ret.err.msg = "id not found"

\* C6: a successful result of Tickers is sorted ascending by rank and is a
\* permutation of the tickers of the data mapping of the response.
C6_SortedPermutation ==
    (op = "Tickers" /\ pc = "done" /\ ret.err = NoErr)
        => LET data == Answer(1).body.doc.tickers
           IN /\ \A a, b \in 1..Len(ret.val[op]) : a < b => ret.val[op][a].Rank <= ret.val[op][b].Rank
              /\ \E o \in Orders(DOMAIN data) :
                    ret.val[op] = [k \in 1..Cardinality(DOMAIN data) |-> data[o[k]]]

C6_Witness ==
    /\ op = "Tickers" /\ pc = "done" /\ ret.err = NoErr
    /\ Len(ret.val[op]) = 3
    /\ Answer(1).body.doc.tickers[args[op].order[1]].Rank = 2
    /\ ret.val[op][1].Rank = 1 /\ ret.val[op][3].Rank = 2

\* the part of s between its surrounding spaces
Core(s) ==
    LET inner == {k \in 1..Len(s) : s[k] \notin Spaces}
    IN IF inner = {} THEN <<>>
       ELSE SubSeq(s, CHOOSE k \in inner : \A j \in inner : k <= j,
                      CHOOSE k \in inner : \A j \in inner : k >= j)

SameLetter(c, d) == c = d \/ {c, d} = {"b", "B"} \/ {c, d} = {"e", "E"}

\* s and t differ only in letter case or surrounding whitespace
SameSymbol(s, t) ==
    /\ Len(Core(s)) = Len(Core(t))
    /\ \A k \in 1..Len(Core(s)) : SameLetter(Core(s)[k], Core(t)[k])

\* the listing names the coin the symbol asks for
Matches(l, symbol) == SameSymbol(l.Symbol, symbol) /\ l.Symbol = ToUpper(l.Symbol) /\ l.Symbol = Core(l.Symbol)

\* C7: CoinID gives the same outcome for any two symbols that differ only in
\* letter case or surrounding whitespace; on a listing set it returns the id
\* of the first listing in list order whose symbol is the symbol asked for in
\* upper case, and fails with "coin not found" when there is none.
C7_CaseInsensitiveFirstMatch ==
    Called("CoinID") =>
        /\ \A t \in Symbols :
              SameSymbol(args[op].symbol, t) =>
                 LET other == CoinID(t, [listings |-> Answer(1)])
                 IN other.val = ret.val[op] /\ other.err = ret.err /\ other.panic = ret.panic
        /\ (~TransportFailed(Answer(1)) /\ Answer(1).body.valid
              /\ \A k \in 1..Len(Answer(1).body.doc.listings) : ~Answer(1).body.doc.listings[k].null)
             => LET ls == Answer(1).body.doc.listings
                    hits == {k \in 1..Len(ls) : Matches(ls[k], args[op].symbol)}
                IN IF hits = {}
                   THEN ret.err.msg = "coin not found" /\ ~ret.panic
                   ELSE /\ ret.err = NoErr /\ ~ret.panic
                        /\ ret.val[op] = ls[CHOOSE k \in hits : \A j \in hits : k <= j].ID

C7_Witness ==
    /\ Called("CoinID")
    /\ args[op].symbol = <<" ", "b">>
    /\ ~TransportFailed(Answer(1)) /\ Answer(1).body.valid
    /\ Answer(1).body.doc.listings = <<Listing(1, <<"b">>), Listing(2, <<"B">>)>>
    /\ ret.val[op] = 2 /\ ret.err = NoErr

JsonFetchers ==
    {"Listings", "Tickers", "Ticker", "TickerGraph", "GlobalMarket",
     "GlobalMarketGraph", "GlobalAltcoinMarketGraph"}

\* C8: when the transport request of a JSON fetcher fails, the fetcher fails
\* with the transport's error (its message or the response body), not with a
\* decode error and not with a result.
C8_TransportErrorSurfaces ==
    \A k \in 1..Len(reqs) :
        (op \in JsonFetchers /\ pc \in {"done", "panic"} /\ TransportFailed(Answer(k)))
            => /\ ret.err.msg = TransportMsg(Answer(k))
               /\ ret.err.kind # "decode"

\* the k-th request of the call failed: no answer, or for the JSON API an
\* answer other than 200
RequestFailed(k) ==
    \/ Answer(k).t \in {"doerr", "readerr"}
    \/ reqs[k].url.path \in {"api/listings", "api/ticker/id"} /\ TransportFailed(Answer(k))

SymbolOnlyMarkets == Called("Markets") /\ ~args[op].nil /\ args[op].Slug = "" /\ args[op].Symbol # <<>>

Composite == Called("CoinID") \/ Called("Price") \/ SymbolOnlyMarkets

\* a failed request is the last one of the call and the call returns an
\* error; no URL is requested twice
ChainStopsAtFailure ==
    /\ \A k \in 1..Len(reqs) : RequestFailed(k) => (k = Len(reqs) /\ ret.err # NoErr /\ ~ret.panic)
    /\ \A j, k \in 1..Len(reqs) : reqs[j].url.path = reqs[k].url.path => j = k

ChainMax == IF op = "CoinID" THEN 1 ELSE IF op = "Price" THEN 2 ELSE 3

C10_ShortRowDecodeError ==
    (Called("Markets") /\ reqs # <<>> /\ reqs[Len(reqs)].url.path = "site/currencies/markets"
        /\ Answer(Len(reqs)).t = "http"
        /\ \E k \in 1..Len(Answer(Len(reqs)).body.doc.rows) : Len(Answer(Len(reqs)).body.doc.rows[k]) < 9)
        => /\ ~ret.panic
           /\ ret.err # NoErr

====
